---- MODULE Spec2Model ----
(***************************************************************************)
(* thread-id (skyline-rs fork): src/lib.rs.                                *)
(*                                                                         *)
(* The crate is one public function, get(), forwarding to the one          *)
(* get_internal() that the target's cfg predicates leave in the build.     *)
(* The model has two layers:                                               *)
(*   - the build: which of the four cfg-gated get_internal items a target  *)
(*     compiles, and what rustc makes of the resulting item set;           *)
(*   - the run: threads of one process calling get(), with the platform    *)
(*     primitive that the compiled backend reads.                          *)
(*                                                                         *)
(* Machine words.  A native identity is up to 64 bits wide.  It is kept as *)
(* the pair of its 32-bit halves, [hi, lo], so that the `as usize` casts   *)
(* act at their real widths: a cast to a 32-bit usize drops hi, a cast     *)
(* from a 32-bit DWORD zero-extends lo.  hi is 0 or 1 (bit 32 clear or     *)
(* set) and lo ranges over 0..MaxLo.                                       *)
(***************************************************************************)
EXTENDS Integers, FiniteSets, TLC

\* Number of worker threads the process may spawn besides the main thread.
MaxWorkers == 2
\* Largest representative of the low 32-bit half of an identity.
MaxLo == 1

VARIABLES
    target,   \* the compilation target: its cfg values
    build,    \* outcome of compiling the crate for the target
    status,   \* per thread: "unborn", "running", "terminated", "joined"
    native,   \* per thread: the identity the platform holds for it (NoId:
              \* none yet, or released)
    pc,       \* per thread: position inside get()
    ret,      \* per thread: value get_internal handed to get(), not yet returned
    syserr,   \* per thread: whether its last getpid syscall failed
    results,  \* per thread: what its completed calls returned
    inbox,    \* the main thread's mpsc receiver: what was sent, and by whom
    lastId    \* Switch runtime: the last ThreadId the counter handed out

vars == <<target, build, status, native, pc, ret, syserr, results, inbox,
          lastId>>

Threads == 0..MaxWorkers
Main == 0
Ids == [hi : {0, 1}, lo : 0..MaxLo]
NoId == [hi |-> -1, lo |-> -1]

----------------------------------------------------------------------------
(* Build layer                                                             *)

\* Targets: the os tag, the target family and the pointer width.  redox is
\* listed with and without the unix family (current rustc targets set it,
\* a custom target specification need not), and so is switch; the Switch
\* targets are 64-bit.  wasm and uefi match no backend.
Targets ==
    { [os |-> "linux",   family |-> "unix",    width |-> 64],
      [os |-> "linux",   family |-> "unix",    width |-> 32],
      [os |-> "windows", family |-> "windows", width |-> 64],
      [os |-> "windows", family |-> "windows", width |-> 32],
      [os |-> "redox",   family |-> "unix",    width |-> 64],
      [os |-> "redox",   family |-> "none",    width |-> 32],
      [os |-> "switch",  family |-> "none",    width |-> 64],
      [os |-> "switch",  family |-> "unix",    width |-> 64],
      [os |-> "unknown", family |-> "wasm",    width |-> 32],
      [os |-> "uefi",    family |-> "none",    width |-> 64] }

Backends == {"switch", "posix", "windows", "redox"}

\* Faulty variant: the POSIX item gated on #[cfg(not(windows))].
CfgHoldsNotWindows(b, tg) ==
    CASE b = "switch"  -> tg.os = "switch"
      [] b = "posix"   -> tg.family # "windows"
      [] b = "windows" -> tg.family = "windows"
      [] b = "redox"   -> tg.os = "redox"

\* The cfg attribute on each get_internal item.
CfgHolds(b, tg) ==
    CASE b = "switch"  -> tg.os = "switch"          \* #[cfg(target_os = "switch")]
      [] b = "posix"   -> tg.family = "unix"        \* #[cfg(unix)]
      [] b = "windows" -> tg.family = "windows"     \* #[cfg(windows)]
      [] b = "redox"   -> tg.os = "redox"           \* #[cfg(target_os = "redox")]

\* The get_internal items left in the crate after cfg stripping.
Compiled(tg) == { b \in Backends : CfgHolds(b, tg) }

\* What rustc makes of the crate: get() names get_internal, so no item is
\* an unresolved name (E0425) and two items are a duplicate definition
\* (E0428).  The crate holds no compile_error!.
BuildResult(defs) ==
    IF Cardinality(defs) = 1 THEN "ok"
    ELSE IF defs = {} THEN "E0425" ELSE "E0428"

\* The backend of a successful build.
Backend == CHOOSE b \in Compiled(target) : TRUE

Compile ==
    /\ build = "pending"
    /\ build' = BuildResult(Compiled(target))
    /\ UNCHANGED <<target, status, native, pc, ret, syserr, results, inbox,
                   lastId>>

----------------------------------------------------------------------------
(* Platform layer: the identity each primitive reads                       *)

\* Bits of the value the backend's primitive yields: pthread_t and the
\* Redox pid are word-sized, GetCurrentThreadId is a DWORD, ThreadId::as_u64
\* is a NonZeroU64.
NativeBits(b, tg) ==
    CASE b = "switch"  -> 64
      [] b = "posix"   -> tg.width
      [] b = "windows" -> 32
      [] b = "redox"   -> tg.width

\* The identities a primitive can yield.
NativeDomain(b, tg) ==
    { i \in Ids : /\ (NativeBits(b, tg) = 32 => i.hi = 0)
                  /\ (b = "switch" => i # [hi |-> 0, lo |-> 0]) }

\* Order of 64-bit values kept as halves.
Less(i, j) == i.hi < j.hi \/ (i.hi = j.hi /\ i.lo < j.lo)

\* Identities held by a thread that has not been reaped.
Held == { native[u] : u \in { x \in Threads : status[x] \in {"running", "terminated"} } }

\* Switch runtime: the ThreadIds the counter can still hand out after i.
Above(i) == { j \in NativeDomain("switch", target) : Less(i, j) }

\* Switch runtime: live threads that std did not spawn and that have not
\* asked for thread::current() yet; they have no ThreadId.
Unnamed == { u \in Threads : status[u] = "running" /\ native[u] = NoId }

\* The identity a new thread may get.  pthread ids, Win32 thread ids and
\* Redox pids are unique among the threads that exist and are handed out
\* again once their thread is reaped.  The Switch runtime's ThreadId comes
\* from a counter that only grows (threads outside the model take the ids
\* in the gaps); the counter is kept from running out in the model by
\* leaving an id for every thread that has none yet.
FreshIds(b, tg) ==
    IF b = "switch"
    THEN { i \in Above(lastId) : Cardinality(Above(i)) >= Cardinality(Unnamed) }
    ELSE NativeDomain(b, tg) \ Held

\* std::thread::current().id() on thread t: the ThreadId the thread has,
\* or, for a thread that has none yet, the next one off the counter.
CurrentIds(t) ==
    IF native[t] # NoId THEN {native[t]}
    ELSE { i \in Above(lastId) :
             Cardinality(Above(i)) >= Cardinality(Unnamed \ {t}) }

\* What the backend's primitive reads for thread t.
Primitive(b, t) == IF b = "switch" THEN CurrentIds(t) ELSE {native[t]}

\* Faulty variant: the value goes through a 32-bit integer (`as u32 as usize`).
CastNarrow(x, from, to) == [hi |-> 0, lo |-> x.lo]

\* `x as usize` for x of `from` bits on a target whose usize has `to` bits:
\* the low min(from, to) bits, zero-extended.
Cast(x, from, to) ==
    IF from = 64 /\ to = 64 THEN x ELSE [hi |-> 0, lo |-> x.lo]

\* syscall::getpid(): Result<usize>.
getpid(id, outcome) ==
    IF outcome = "ok" THEN [ok |-> TRUE, val |-> id]
    ELSE [ok |-> FALSE, val |-> NoId]

\* Faulty variant: Result::unwrap_or_default, 0 in place of a panic.
unwrap_or_default(r) ==
    IF r.ok THEN [panic |-> FALSE, val |-> r.val]
    ELSE [panic |-> FALSE, val |-> [hi |-> 0, lo |-> 0]]

\* Result::unwrap: the value, or a panic.
unwrap(r) ==
    IF r.ok THEN [panic |-> FALSE, val |-> r.val]
    ELSE [panic |-> TRUE, val |-> NoId]

\* Outcomes of the backend's primitive: only getpid is fallible.
Outcomes(b) == IF b = "redox" THEN {"ok", "err"} ELSE {"ok"}

\* Faulty variant: the thread's position among the live threads (an index into a
\* registry that shifts when an earlier thread is reaped).
get_internal_registry(t, outcome, id) ==
    [panic |-> FALSE,
     val |-> [hi |-> 0,
              lo |-> Cardinality({ u \in Threads : u < t /\ status[u] = "running" })]]

\* Faulty variant: the process id (what getpid yields outside Redox): one value for
\* the whole process.
get_internal_pid(t, outcome, id) ==
    [panic |-> FALSE, val |-> Cast(native[Main], target.width, target.width)]

\* Faulty variant: the identity is cached in a static shared by all threads, so a
\* call that overlaps another one reads the other caller's value.
get_internal_cached(t, outcome, id) ==
    LET others == { u \in Threads \ {t} : pc[u] = "ret" } IN
    IF others # {}
    THEN [panic |-> FALSE, val |-> ret[CHOOSE u \in others : TRUE]]
    ELSE [panic |-> FALSE, val |-> Cast(id, target.width, target.width)]

\* get_internal() on thread t, for the backend the build compiled; id is
\* what the backend's primitive reads for the thread.
get_internal(t, outcome, id) ==
    CASE Backend = "switch" ->
           [panic |-> FALSE, val |-> Cast(id, 64, target.width)]
      [] Backend = "posix" ->
           [panic |-> FALSE, val |-> Cast(id, target.width, target.width)]
      [] Backend = "windows" ->
           [panic |-> FALSE, val |-> Cast(id, 32, target.width)]
      [] Backend = "redox" ->
           unwrap(getpid(id, outcome))

----------------------------------------------------------------------------
(* Run layer                                                               *)

\* thread::spawn (and the start of the main thread): the platform gives
\* the new thread an identity.  Workers are numbered in spawn order.
Spawn(t) ==
    /\ build = "ok"
    /\ status[t] = "unborn"
    /\ (t # Main => status[Main] = "running" /\ status[t - 1] # "unborn")
    /\ \E i \in FreshIds(Backend, target) :
          /\ native' = [native EXCEPT ![t] = i]
          /\ lastId' = IF Backend = "switch" THEN i ELSE lastId
    /\ status' = [status EXCEPT ![t] = "running"]
    /\ UNCHANGED <<target, build, pc, ret, syserr, results, inbox>>

\* A thread that std did not spawn starts (pthread_create, a thread of the
\* host program).  It has its pthread id, Win32 id or pid from the start,
\* as a spawned thread has; the Switch runtime gives it no ThreadId until
\* it first asks for thread::current().  (The main thread has its ThreadId
\* from the runtime's start.)
Create(t) ==
    /\ build = "ok"
    /\ Backend = "switch"
    /\ t # Main
    /\ status[t] = "unborn"
    /\ status[Main] = "running" /\ status[t - 1] # "unborn"
    /\ Cardinality(Above(lastId)) >= Cardinality(Unnamed) + 1
    /\ status' = [status EXCEPT ![t] = "running"]
    /\ UNCHANGED <<target, build, native, pc, ret, syserr, results, inbox,
                   lastId>>

\* get() entered.
Call(t) ==
    /\ status[t] = "running"
    /\ pc[t] = "idle"
    /\ pc' = [pc EXCEPT ![t] = "call"]
    /\ UNCHANGED <<target, build, status, native, ret, syserr, results,
                   inbox, lastId>>

\* The call into get_internal() and what comes of it: a value for get()
\* to return, or a panic that unwinds the thread.  On Switch the first
\* thread::current() of a thread without a ThreadId creates the thread's
\* handle: it takes the next ThreadId off the process-wide counter.
RunGetInternal(t) ==
    /\ status[t] = "running"
    /\ pc[t] = "call"
    /\ \E outcome \in Outcomes(Backend), id \in Primitive(Backend, t) :
          LET r == get_internal(t, outcome, id) IN
          /\ native' = [native EXCEPT ![t] = id]
          /\ lastId' = IF Backend = "switch" /\ native[t] = NoId
                       THEN id ELSE lastId
          /\ syserr' = [syserr EXCEPT ![t] = (outcome = "err")]
          /\ IF r.panic
             THEN /\ pc' = [pc EXCEPT ![t] = "panicked"]
                  /\ status' = [status EXCEPT ![t] = "terminated"]
                  /\ ret' = ret
             ELSE /\ pc' = [pc EXCEPT ![t] = "ret"]
                  /\ status' = status
                  /\ ret' = [ret EXCEPT ![t] = r.val]
    /\ UNCHANGED <<target, build, results, inbox>>

\* Faulty variant: get() takes a process-wide lock around the call, held by a
\* caller until it has returned.
get_locked(t) ==
    /\ \A u \in Threads \ {t} : pc[u] # "ret"
    /\ RunGetInternal(t)

\* get(): forwards to get_internal().
get(t) == RunGetInternal(t)

\* get() returns the value to its caller.  A worker's closure is
\* tx.send(::get()).unwrap(): what get() returns goes into the channel
\* whose receiver the main thread holds; with the receiver gone (the main
\* thread has unwound) send fails and the unwrap panics the worker.
Return(t) ==
    /\ status[t] = "running"
    /\ pc[t] = "ret"
    /\ results' = [results EXCEPT ![t] = @ \cup {ret[t]}]
    /\ IF t # Main /\ status[Main] = "running"
       THEN /\ inbox' = inbox \cup {[from |-> t, val |-> ret[t]]}
            /\ status' = status
       ELSE /\ inbox' = inbox
            /\ status' = IF t # Main
                         THEN [status EXCEPT ![t] = "terminated"]
                         ELSE status
    /\ ret' = [ret EXCEPT ![t] = NoId]
    /\ pc' = [pc EXCEPT ![t] = "idle"]
    /\ UNCHANGED <<target, build, native, syserr, lastId>>

\* thread::spawn(..).join().unwrap() on the main thread: the worker's
\* closure has returned (or panicked), the thread is reaped and the
\* platform may hand its identity out again.  join() of a worker that
\* panicked is an Err, and the unwrap panics the main thread.
Join(t) ==
    /\ t # Main
    /\ \/ status[t] = "running" /\ pc[t] = "idle"
       \/ status[t] = "terminated"
    /\ status[Main] = "running" /\ pc[Main] = "idle"
    /\ status' = [status EXCEPT
                    ![t] = "joined",
                    ![Main] = IF status[t] = "terminated"
                              THEN "terminated" ELSE @]
    /\ native' = [native EXCEPT ![t] = NoId]
    /\ pc' = [pc EXCEPT ![t] = "idle"]
    /\ syserr' = [syserr EXCEPT ![t] = FALSE]
    /\ UNCHANGED <<target, build, ret, results, inbox, lastId>>

Init ==
    /\ target \in Targets
    /\ build = "pending"
    /\ status = [t \in Threads |-> "unborn"]
    /\ native = [t \in Threads |-> NoId]
    /\ pc = [t \in Threads |-> "idle"]
    /\ ret = [t \in Threads |-> NoId]
    /\ syserr = [t \in Threads |-> FALSE]
    /\ results = [t \in Threads |-> {}]
    /\ inbox = {}
    /\ lastId = [hi |-> 0, lo |-> 0]

Next ==
    \/ Compile
    \/ \E t \in Threads : Spawn(t)
    \/ \E t \in Threads : Create(t)
    \/ \E t \in Threads : Call(t)
    \/ \E t \in Threads : get(t)
    \/ \E t \in Threads : Return(t)
    \/ \E t \in Threads : Join(t)

Spec == Init /\ [][Next]_vars

----------------------------------------------------------------------------
(* Properties                                                              *)

Live == { t \in Threads : status[t] = "running" }

\* Every value get() has produced for thread t: returned, or in hand.
Got(t) == results[t] \cup (IF pc[t] = "ret" THEN {ret[t]} ELSE {})

\* C1: all calls to get made by one thread during its lifetime return equal
\* values, whatever other threads were created, called get or terminated
\* in between.
C1_SameThreadSameId ==
    \A t \in Threads : \A v, w \in Got(t) : v = w

\* A thread holds the value of a second call after a first one returned,
\* and another thread has come and gone.
C1_Witness ==
    \E t \in Threads :
       /\ results[t] # {} /\ pc[t] = "ret"
       /\ \E u \in Threads \ {t} : status[u] = "joined" /\ results[u] # {}

\* C2: in every reachable state no two live threads have the same
\* identifier.
C2_LiveThreadsDistinct ==
    \A t, u \in Live : t # u => Got(t) \cap Got(u) = {}

\* Two threads are live together and each has been returned its identifier.
C2_Witness ==
    \E t, u \in Live : t # u /\ results[t] # {} /\ results[u] # {}

\* C3: a value a worker obtained and sent while the main thread was live is
\* unequal to the value the main thread obtains, also when the main thread
\* calls get only after the worker has terminated and been joined.
C3_ReceivedIdDiffers ==
    \A m \in inbox : m.val \notin Got(Main)

\* The main thread holds the value of its first call, made after a worker's
\* value arrived, and that worker is terminated and joined.
C3_Witness ==
    /\ pc[Main] = "ret" /\ results[Main] = {}
    /\ \E m \in inbox : status[m.from] = "joined"

\* C4: get returns unequal values to any two distinct threads of the
\* process, whether or not their lifetimes overlap.
C4_AllThreadsDistinct ==
    \A t, u \in Threads : t # u => Got(t) \cap Got(u) = {}

\* The backend the selection table names for a recognized target.
TableBackend(tg) ==
    CASE tg.os = "switch"        -> "switch"
      [] tg.os = "redox"         -> "redox"
      [] tg.family = "unix"      -> "posix"
      [] tg.family = "windows"   -> "windows"
      [] OTHER                   -> "none"

Recognized(tg) == TableBackend(tg) # "none"

\* C5: for every recognized target exactly one get_internal is compiled,
\* the one the selection table names (Switch, Redox, POSIX for any other
\* unix, Windows), so the build of a recognized target succeeds.
C5_ExactlyTheTableBackend ==
    (build # "pending" /\ Recognized(target)) =>
        /\ Compiled(target) = {TableBackend(target)}
        /\ build = "ok"

\* C6 as stated: a target that matches no backend fails to build with an
\* explicit unsupported-target diagnostic.
C6_ExplicitDiagnostic ==
    (build # "pending" /\ ~Recognized(target)) => build = "unsupported_target"

\* C6 amended: a target that matches no backend fails to build, the error
\* being the unresolved name get_internal inside get (E0425), and no get
\* is ever run for it.
C6_BuildFailsUnresolved ==
    (build # "pending" /\ ~Recognized(target)) =>
        /\ build = "E0425"
        /\ \A t \in Threads : status[t] = "unborn" /\ Got(t) = {}

C6_Witness == ~Recognized(target) /\ build = "E0425"

\* A step of some thread inside get().
CallStep == \E t \in Threads : Call(t) \/ get(t) \/ Return(t)

\* The values threads hold from overlapping calls are pairwise distinct
\* and equal to what the threads' other calls returned.
OverlappingCallsAgree ==
    \A t, u \in Live :
       (t # u /\ pc[t] = "ret" /\ pc[u] = "ret") =>
          /\ ret[t] # ret[u]
          /\ results[t] \subseteq {ret[t]}
          /\ results[u] \subseteq {ret[u]}

\* A step of thread t leaves every other thread as it was.
OthersUntouched(t) ==
    \A u \in Threads \ {t} :
       /\ status'[u] = status[u] /\ pc'[u] = pc[u] /\ native'[u] = native[u]
       /\ ret'[u] = ret[u] /\ results'[u] = results[u]

\* C7 as stated: threads that are live together and inside get() at once
\* each hold the value their other calls returned, the values are pairwise
\* distinct, and a step of a call changes no state: no identity the
\* platform holds, no shared state, no other thread's state.
C7_ConcurrentCalls ==
    /\ []OverlappingCallsAgree
    /\ [][CallStep =>
            /\ native' = native /\ lastId' = lastId
            /\ \E t \in Threads : OthersUntouched(t)]_vars

\* C7 amended: as stated, except that on the Switch backend the first call
\* of a thread that has no ThreadId yet creates that thread's identity and
\* advances the runtime's ThreadId counter; every other call step leaves
\* the identities and the counter unchanged, and no call step changes an
\* identity that exists or another thread's state.
C7_ConcurrentCallsOwnIdentity ==
    /\ []OverlappingCallsAgree
    /\ [][CallStep =>
            \E t \in Threads :
               /\ OthersUntouched(t)
               /\ \/ native'[t] = native[t] /\ lastId' = lastId
                  \/ /\ target.os = "switch"
                     /\ pc[t] = "call" /\ native[t] = NoId
                     /\ native'[t] \in Ids /\ Less(lastId, native'[t])
                     /\ lastId' = native'[t]]_vars

\* On Switch two live threads hold the values of overlapping calls, one
\* of them after an earlier call of its own, and the thread created first
\* has the later ThreadId: it got it in get(), after the other had its own.
C7_Witness ==
    \E t, u \in Live :
       /\ target.os = "switch"
       /\ t < u /\ pc[t] = "ret" /\ pc[u] = "ret"
       /\ Less(native[u], native[t])
       /\ results[u] # {}

C9_NoErrorOutcome ==
    build = "ok" =>
      /\ target.os # "redox" =>
            \A t \in Threads : pc[t] # "panicked" /\ ~syserr[t]
      /\ \A t \in Threads :
            /\ Got(t) \subseteq Ids
            /\ syserr[t] => (pc[t] = "panicked" /\ ret[t] = NoId)

\* A Redox thread has panicked in get() on a failed getpid, after an
\* earlier call of it returned.
C9_Witness ==
    \E t \in Threads :
       target.os = "redox" /\ syserr[t] /\ pc[t] = "panicked" /\ results[t] # {}

\* C10: the value get_internal hands back is the primitive's value at
\* machine-word width: the pthread_self bits on POSIX, the DWORD
\* zero-extended (below 2^32) on Windows, the pid on Redox, the ThreadId
\* modulo 2^W on Switch; where the native width is at most W, distinct
\* native identities give distinct values.
C10_NormalizedPrimitive ==
    build = "ok" =>
      \A t \in Threads : pc[t] = "ret" =>
        /\ target.os = "switch" =>
              ret[t] = IF target.width = 64 THEN native[t]
                       ELSE [hi |-> 0, lo |-> native[t].lo]
        /\ target.os = "redox" => ret[t] = native[t]
        /\ (target.family = "unix" /\ target.os \notin {"switch", "redox"}) =>
              ret[t] = native[t]
        /\ target.family = "windows" =>
              ret[t].hi = 0 /\ ret[t].lo = native[t].lo
        /\ \A u \in Threads :
              (pc[u] = "ret" /\ native[u] # native[t]) => ret[u] # ret[t]

\* On a 64-bit target a thread holds a value with bit 32 set while another
\* holds one with the same low half.
C10_Witness ==
    \E t, u \in Threads :
       /\ pc[t] = "ret" /\ pc[u] = "ret"
       /\ ret[t].hi = 1 /\ ret[u].hi = 0 /\ ret[t].lo = ret[u].lo

====
